---- MODULE Spec2Model ----
(***************************************************************************)
(* adex-supermarket: the serve() startup sequence, the background task     *)
(* that refreshes the campaign cache on two timers (spawn_fetch_campaigns) *)
(* and the per-request dispatcher (handle).                                *)
(*                                                                         *)
(* Time is discrete.  A step of a task takes no time; time passes (Tick)   *)
(* only while every task is suspended on something that is not ready.      *)
(***************************************************************************)
EXTENDS Integers, Sequences, FiniteSets, TLC

(* ---------------------------- bounds ----------------------------------- *)
\* largest timer period (config.fetch_campaigns_every, update_campaigns_every)
MaxPeriod == 3
\* largest timeout (config.timeouts.*)
MaxTimeout == 3
\* how far behind the clock an interval's deadline is tracked
MaxLag == 6

(* ---------------------------- strings ---------------------------------- *)
\* strings are sequences of one-character strings
ROUTE_UNITS_FOR_SLOT ==
    << "/", "u", "n", "i", "t", "s", "-", "f", "o", "r", "-", "s", "l", "o", "t", "/" >>

\* str::starts_with
StartsWith(s, p) ==
    /\ Len(s) >= Len(p)
    /\ SubSeq(s, 1, Len(p)) = p

\* a handler that takes the whole path as the identifier
TrimNothing(s, p) == s

RECURSIVE TrimStartMatches(_, _)
\* str::trim_start_matches: the prefix is removed as often as it repeats
TrimStartMatches(s, p) ==
    IF p # << >> /\ StartsWith(s, p)
    THEN TrimStartMatches(SubSeq(s, Len(p) + 1, Len(s)), p)
    ELSE s

\* str::contains
Contains(s, p) ==
    \E i \in 1 .. (Len(s) - Len(p) + 1) : SubSeq(s, i, i + Len(p) - 1) = p

(* ---------------------------- scheduler data --------------------------- *)
\* enum TimeFor
TimeFor == {"New", "Update"}

Other(k) == IF k = "New" THEN "Update" ELSE "New"

Max(a, b) == IF a >= b THEN a ELSE b

\* one slog record
Event(level, msg) == [level |-> level, msg |-> msg]

VARIABLES
    config,     \* the Config serve() was called with
    servePc,    \* where serve() is
    initResult, \* what Cache::initialize returned ("none" before it has)
    bound,      \* TRUE once Server::bind has returned
    bootLog,    \* records logged by serve/spawn_fetch_campaigns outside the loop
    schedPc,    \* where the spawned task is
    due,        \* per timer: deadline of its Delay minus now (<= 0: a tick is ready)
    flag,       \* futures::stream::Select's flag
    cur,        \* the TimeFor of the attempt last dispatched ("none" before the first)
    elapsed,    \* time since the current attempt was dispatched
    running,    \* per kind: refresh futures that exist and have not resolved or been dropped
    outcome,    \* what the match on timeout(..).await saw for the last attempt
    schedLog,   \* records logged for the last attempt
    req,        \* the request handle() is working on
    calls,      \* calls handle() made for that request
    resp,       \* what handle() returned for it
    reqLog,     \* records logged for that request
    cache,      \* the campaigns in the store every Cache handle refers to
    staged      \* the snapshot the running refresh has built beside the store

schedVars == << schedPc, due, flag, cur, elapsed, running, outcome, schedLog >>
serveVars == << config, servePc, initResult, bound, bootLog >>
reqVars == << req, calls, resp, reqLog >>
cacheVars == << cache, staged >>
vars == << config, servePc, initResult, bound, bootLog, schedPc, due, flag, cur, elapsed,
           running, outcome, schedLog, req, calls, resp, reqLog, cache, staged >>

\* period of the interval behind a TimeFor
Period(k) ==
    IF k = "New" THEN config.fetch_campaigns_every ELSE config.update_campaigns_every

\* timeout of the cache operation behind a TimeFor
TimeoutDuration(k) ==
    IF k = "New"
    THEN config.timeouts.cache_fetch_campaigns_from_market
    ELSE config.timeouts.cache_update_campaign_statuses

Configs ==
    [ fetch_campaigns_every : 1 .. MaxPeriod,
      update_campaigns_every : 1 .. MaxPeriod,
      timeouts : [ cache_fetch_campaigns_from_market : 0 .. MaxTimeout,
                   cache_update_campaign_statuses : 0 .. MaxTimeout ] ]

\* Option<&str> as Uri::query() returns it
None == [ some |-> FALSE, q |-> << >> ]
Some(q) == [ some |-> TRUE, q |-> q ]

(* ---------------------------- the cache -------------------------------- *)
\* identifiers of the campaigns upstream may know
Campaigns == {"c1", "c2"}

\* what a validator reports for a campaign: its status and the balance-tree
\* state that goes with it
CampaignStates ==
    { [ status |-> "new", balance |-> 0 ],
      [ status |-> "active", balance |-> 1 ],
      [ status |-> "finalized", balance |-> 2 ] }

\* a campaign as fetch_new_campaigns adds it
NewCampaign == [ status |-> "new", balance |-> 0 ]

\* the contents a store, or upstream, can have
Snapshots == UNION { [ S -> CampaignStates ] : S \in SUBSET Campaigns }

EmptyCache == [ c \in {} |-> NewCampaign ]

\* upstream as it is when nothing changes: one campaign, newly discovered
SteadyUpstream == [ c \in {"c1"} |-> NewCampaign ]

\* no snapshot built
NoSnapshot == [ some |-> FALSE, snap |-> EmptyCache ]

\* Cache::fetch_new_campaigns: the campaigns upstream knows and the store does
\* not are added with status new; known ones are left as they are
fetch_new_campaigns(c, up) ==
    [ x \in (DOMAIN c) \cup (DOMAIN up) |-> IF x \in DOMAIN c THEN c[x] ELSE NewCampaign ]

\* Cache::fetch_campaign_updates: every known campaign gets what its validator
\* reports; none is added or removed
fetch_campaign_updates(c, up) ==
    [ x \in DOMAIN c |-> IF x \in DOMAIN up THEN up[x] ELSE c[x] ]

\* the store after a cache operation returned: the snapshot is committed in
\* one step, and only on success
Commit(c, st, res) == IF res = "ok" /\ st.some THEN st.snap ELSE c

\* the store after the operation's future was dropped
Abandon(c, st) == c

\* the ad-unit a campaign funds
FundedUnit(c) == IF c = "c1" THEN << "u", 1 >> ELSE << "u", 2 >>

\* a call that has not returned
Pending == [ kind |-> "pending" ]

\* before the first request
NoRequest ==
    [ pc |-> "idle", method |-> "none", path |-> << >>, query |-> None,
      body |-> << >>, uri_ok |-> TRUE ]
NoCalls == [ fetch_slot |-> << >>, fetch_units |-> << >>, proxy |-> << >> ]
NoResponse == [ kind |-> "none" ]

InitRest ==
    /\ servePc = "start"
    /\ initResult = "none"
    /\ bound = FALSE
    /\ bootLog = << >>
    /\ schedPc = "none"
    /\ due = [ k \in TimeFor |-> 0 ]
    /\ flag = FALSE
    /\ cur = "none"
    /\ elapsed = 0
    /\ running = [ k \in TimeFor |-> 0 ]
    /\ outcome = "none"
    /\ schedLog = << >>
    /\ cache = EmptyCache
    /\ staged = NoSnapshot
    /\ req = NoRequest
    /\ calls = NoCalls
    /\ resp = NoResponse
    /\ reqLog = << >>

\* the configuration under which every kind of request is explored
HandleConfigs ==
    { [ fetch_campaigns_every |-> 2,
        update_campaigns_every |-> 2,
        timeouts |-> [ cache_fetch_campaigns_from_market |-> 1,
                       cache_update_campaign_statuses |-> 1 ] ] }

Init ==
    /\ config \in HandleConfigs
    /\ InitRest

\* the process is gone: serve() returned to main(), or panicked
Exited == servePc \in {"returned_err", "returned_ok", "panicked"}

(* ---------------------------- serve ------------------------------------ *)
\* a startup that spawns the task before the initial load
MarketApiNewOkSpawnFirst ==
    /\ servePc = "start"
    /\ servePc' = "initialize"
    /\ schedPc' = "spawned"
    /\ bootLog' = Append(bootLog, Event("info", "Initialize Cache"))
    /\ UNCHANGED << config, initResult, bound >>
    /\ UNCHANGED << due, flag, cur, elapsed, running, outcome, schedLog >>
    /\ UNCHANGED reqVars
    /\ UNCHANGED cacheVars

\* Client::new(); MarketApi::new(market_url, logger)? succeeds
MarketApiNewOk ==
    /\ servePc = "start"
    /\ servePc' = "initialize"
    /\ bootLog' = Append(bootLog, Event("info", "Initialize Cache"))
    /\ UNCHANGED << config, initResult, bound >>
    /\ UNCHANGED schedVars
    /\ UNCHANGED reqVars
    /\ UNCHANGED cacheVars

\* MarketApi::new(market_url, logger)? fails: serve returns the error
MarketApiNewErr ==
    /\ servePc = "start"
    /\ servePc' = "returned_err"
    /\ UNCHANGED << config, initResult, bound, bootLog >>
    /\ UNCHANGED schedVars
    /\ UNCHANGED reqVars
    /\ UNCHANGED cacheVars

\* a failed initial load that is not propagated: the task is spawned all the same
CacheInitializeErrIgnored ==
    /\ servePc = "initialize"
    /\ initResult' = "err"
    /\ servePc' = "bind"
    /\ schedPc' = "spawned"
    /\ UNCHANGED << config, bound, bootLog >>
    /\ UNCHANGED << due, flag, cur, elapsed, running, outcome, schedLog >>
    /\ UNCHANGED reqVars
    /\ UNCHANGED cacheVars

\* Cache::initialize(..).await? fails: spawn_fetch_campaigns and serve return the error
CacheInitializeErr ==
    /\ servePc = "initialize"
    /\ initResult' = "err"
    /\ servePc' = "returned_err"
    /\ UNCHANGED << config, bound, bootLog >>
    /\ UNCHANGED schedVars
    /\ UNCHANGED reqVars
    /\ UNCHANGED cacheVars

\* Cache::initialize(..).await? succeeds with the campaigns upstream knows:
\* the task is spawned, the cache returned
CacheInitializeOk(snap) ==
    /\ servePc = "initialize"
    /\ initResult' = "ok"
    /\ cache' = snap
    /\ servePc' = "bind"
    /\ schedPc' = "spawned"
    /\ UNCHANGED << config, bound, bootLog >>
    /\ UNCHANGED << due, flag, cur, elapsed, running, outcome, schedLog >>
    /\ UNCHANGED reqVars
    /\ UNCHANGED staged

\* Server::bind(&addr).serve(make_service)
ServerBind ==
    /\ servePc = "bind"
    /\ servePc' = "serving"
    /\ bound' = TRUE
    /\ UNCHANGED << config, initResult, bootLog >>
    /\ UNCHANGED schedVars
    /\ UNCHANGED reqVars
    /\ UNCHANGED cacheVars

\* Server::bind panics when the address cannot be bound
ServerBindPanic ==
    /\ servePc = "bind"
    /\ servePc' = "panicked"
    /\ schedPc' = "shutdown"
    /\ running' = [ k \in TimeFor |-> 0 ]
    /\ UNCHANGED << config, initResult, bound, bootLog >>
    /\ UNCHANGED << due, flag, cur, elapsed, outcome, schedLog >>
    /\ UNCHANGED reqVars
    /\ staged' = NoSnapshot
    /\ UNCHANGED cache

\* server.await returns Err(e): logged, serve returns Ok(()), main returns
ServerError ==
    /\ servePc = "serving"
    /\ servePc' = "returned_ok"
    /\ bootLog' = Append(bootLog, Event("error", "server error"))
    /\ schedPc' = "shutdown"
    /\ running' = [ k \in TimeFor |-> 0 ]
    /\ UNCHANGED << config, initResult, bound >>
    /\ UNCHANGED << due, flag, cur, elapsed, outcome, schedLog >>
    /\ UNCHANGED reqVars
    /\ staged' = NoSnapshot
    /\ UNCHANGED cache

(* ---------------------------- the spawned task ------------------------- *)
\* tokio Interval::poll_tick: a tick is yielded once the Delay's deadline is reached
IntervalReady(d) == d <= 0

\* a select that always polls new_interval first (no flag)
SelectPollBiased(f, ready) ==
    IF ready["New"]
    THEN [ item |-> "New", flag |-> f ]
    ELSE IF ready["Update"]
         THEN [ item |-> "Update", flag |-> f ]
         ELSE [ item |-> "Pending", flag |-> f ]

\* futures::stream::select(new_interval, update_interval).next(): the stream the
\* flag names is polled first; the flag flips only when that stream yields
SelectPoll(f, ready) ==
    LET first == IF f THEN "Update" ELSE "New"
    IN  IF ready[first]
        THEN [ item |-> first, flag |-> ~f ]
        ELSE IF ready[Other(first)]
             THEN [ item |-> Other(first), flag |-> f ]
             ELSE [ item |-> "Pending", flag |-> f ]

\* an operation awaited without a timeout
TimedOutNever(e, d) == FALSE

\* tokio::time::timeout: the Delay of the Timeout has elapsed
TimedOut(e, d) == e >= d

\* the arms of the two matches on timeout(..).await; res is "ok" (the operation
\* returned Ok(())), "err" (it returned Err(FetchError)) or "elapsed"
AttemptLog(k, res) ==
    IF k = "New"
    THEN IF res = "elapsed"
         THEN << Event("error", "Fetching new Campaigns timed out") >>
         ELSE << Event("info", "New Campaigns fetched from Validators!") >>
    ELSE IF res = "elapsed"
         THEN << Event("error", "Updating Campaigns statuses timed out") >>
         ELSE << Event("info", "Campaigns statuses updated from Validators!") >>

\* a loop that ends on the first failed attempt
LoopNextBreak(res) == IF res = "ok" THEN "await" ELSE "finished"

\* while let Some(time_for) = select_time.next().await: after a match arm the
\* loop awaits the next item
LoopNext(res) == "await"

\* the results a cache operation can return (spec 4.1: () | FetchError)
FetchResults == {"ok", "err"}

\* first poll of the spawned task: the two intervals are created, both with
\* their first tick due immediately
SchedStart ==
    /\ ~Exited
    /\ schedPc = "spawned"
    /\ schedPc' = "await"
    /\ bootLog' = Append(bootLog, Event("info", "Task for updating campaign has been spawned"))
    /\ due' = [ k \in TimeFor |-> 0 ]
    /\ UNCHANGED << config, servePc, initResult, bound >>
    /\ UNCHANGED << flag, cur, elapsed, running, outcome, schedLog >>
    /\ UNCHANGED reqVars
    /\ UNCHANGED cacheVars

\* select_time.next().await yields; the matching cache operation is called
\* under its timeout
SchedDispatch ==
    /\ ~Exited
    /\ schedPc = "await"
    /\ LET r == SelectPoll(flag, [ k \in TimeFor |-> IntervalReady(due[k]) ])
       IN  /\ r.item # "Pending"
           /\ flag' = r.flag
           /\ cur' = r.item
           /\ due' = [ due EXCEPT ![r.item] = @ + Period(r.item) ]
           /\ running' = [ running EXCEPT ![r.item] = @ + 1 ]
    /\ schedPc' = "run"
    /\ elapsed' = 0
    /\ outcome' = "none"
    /\ schedLog' = << >>
    /\ UNCHANGED serveVars
    /\ UNCHANGED reqVars
    /\ UNCHANGED cacheVars

\* the running cache operation gets upstream's answer and builds the new
\* snapshot beside the store; it is suspended before and after
CacheStage(up) ==
    /\ ~Exited
    /\ schedPc = "run"
    /\ ~staged.some
    /\ staged' = [ some |-> TRUE,
                   snap |-> IF cur = "New"
                            THEN fetch_new_campaigns(cache, up)
                            ELSE fetch_campaign_updates(cache, up) ]
    /\ UNCHANGED cache
    /\ UNCHANGED schedVars
    /\ UNCHANGED serveVars
    /\ UNCHANGED reqVars

\* the cache operation returns before the timeout
SchedReturn(res) ==
    /\ ~Exited
    /\ schedPc = "run"
    /\ outcome' = res
    /\ schedLog' = AttemptLog(cur, res)
    /\ running' = [ running EXCEPT ![cur] = @ - 1 ]
    /\ schedPc' = LoopNext(res)
    /\ elapsed' = 0
    /\ UNCHANGED << due, flag, cur >>
    /\ UNCHANGED serveVars
    /\ UNCHANGED reqVars
    /\ cache' = Commit(cache, staged, res)
    /\ staged' = NoSnapshot

\* a timeout that stops waiting for the operation but leaves it running
SchedTimeoutDetached ==
    /\ ~Exited
    /\ schedPc = "run"
    /\ TimedOut(elapsed, TimeoutDuration(cur))
    /\ outcome' = "elapsed"
    /\ schedLog' = AttemptLog(cur, "elapsed")
    /\ schedPc' = LoopNext("elapsed")
    /\ elapsed' = 0
    /\ UNCHANGED << due, flag, cur, running >>
    /\ UNCHANGED serveVars
    /\ UNCHANGED reqVars
    /\ UNCHANGED cacheVars

\* a timeout that starts the same operation again at once
SchedTimeoutRetry ==
    /\ ~Exited
    /\ schedPc = "run"
    /\ TimedOut(elapsed, TimeoutDuration(cur))
    /\ outcome' = "elapsed"
    /\ schedLog' = AttemptLog(cur, "elapsed")
    /\ schedPc' = "run"
    /\ elapsed' = 0
    /\ UNCHANGED << due, flag, cur, running >>
    /\ UNCHANGED serveVars
    /\ UNCHANGED reqVars
    /\ cache' = Abandon(cache, staged)
    /\ staged' = NoSnapshot

\* the timeout elapses first: Timeout resolves to Err(Elapsed) and the
\* operation's future is dropped with it
SchedTimeout ==
    /\ ~Exited
    /\ schedPc = "run"
    /\ TimedOut(elapsed, TimeoutDuration(cur))
    /\ outcome' = "elapsed"
    /\ schedLog' = AttemptLog(cur, "elapsed")
    /\ running' = [ running EXCEPT ![cur] = @ - 1 ]
    /\ schedPc' = LoopNext("elapsed")
    /\ elapsed' = 0
    /\ UNCHANGED << due, flag, cur >>
    /\ UNCHANGED serveVars
    /\ UNCHANGED reqVars
    /\ cache' = Abandon(cache, staged)
    /\ staged' = NoSnapshot

\* one unit of time passes while the task is suspended: on the merged stream
\* with no tick ready, or on a refresh whose timeout has not elapsed
Tick ==
    /\ ~Exited
    /\ \/ /\ schedPc = "await"
          /\ \A k \in TimeFor : ~IntervalReady(due[k])
       \/ /\ schedPc = "run"
          /\ ~TimedOut(elapsed, TimeoutDuration(cur))
    /\ due' = [ k \in TimeFor |-> Max(due[k] - 1, 0 - MaxLag) ]
    /\ elapsed' = IF schedPc = "run" /\ elapsed <= MaxTimeout THEN elapsed + 1 ELSE elapsed
    /\ UNCHANGED << schedPc, flag, cur, running, outcome, schedLog >>
    /\ UNCHANGED serveVars
    /\ UNCHANGED reqVars
    /\ UNCHANGED cacheVars

(* ---------------------------- handle ----------------------------------- *)
\* the market_url serve() was called with
MarketUrl == << "h", ":", "/", "/", "m" >>

Methods == {"GET", "POST"}

Abc123 == << "a", "b", "c", "1", "2", "3" >>

Paths ==
    { ROUTE_UNITS_FOR_SLOT,
      ROUTE_UNITS_FOR_SLOT \o Abc123,
      ROUTE_UNITS_FOR_SLOT \o ROUTE_UNITS_FOR_SLOT,
      ROUTE_UNITS_FOR_SLOT \o ROUTE_UNITS_FOR_SLOT \o Abc123,
      SubSeq(ROUTE_UNITS_FOR_SLOT, 1, Len(ROUTE_UNITS_FOR_SLOT) - 1),
      << "/" >> \o Abc123 \o ROUTE_UNITS_FOR_SLOT,
      << "/", "a", "n", "y" >> }

NoTargeting == << "n", "o", "T", "a", "r", "g", "e", "t", "i", "n", "g" >>

Queries == { None, Some(NoTargeting), Some(<< "x", "=", "1" >>) }

Bodies == { << >>, << "b" >> }

\* what the Market can answer to a proxied request
UpstreamResponses ==
    { [ kind |-> "ok", status |-> st, body |-> b ] : st \in {200, 404, 500}, b \in Bodies }

\* Ok(response)
OkResponse(status, body) == [ kind |-> "ok", status |-> status, body |-> body ]

\* Err(e) out of handle
ErrResponse(e) == [ kind |-> "err", error |-> e ]

\* fn not_found()
not_found == OkResponse(404, << >>)

\* fn service_unavaiable()
service_unavaiable == OkResponse(503, << >>)

\* a route test that does not need the trailing slash
is_units_for_slot_loose(path) ==
    StartsWith(path, SubSeq(ROUTE_UNITS_FOR_SLOT, 1, Len(ROUTE_UNITS_FOR_SLOT) - 1))

\* req.uri().path().starts_with(ROUTE_UNITS_FOR_SLOT)
is_units_for_slot(path) == StartsWith(path, ROUTE_UNITS_FOR_SLOT)

\* a rewrite that keeps the path and loses the query
PathOnly(path, query) == path

\* Uri::path_and_query() rendered by format!
PathAndQuery(path, query) ==
    IF query.some THEN path \o << "?" >> \o query.q ELSE path

\* a request arrives and handle() runs up to its first await or return
HandleRequest(m, p, q, b, ok) ==
    /\ servePc = "serving"
    /\ req.pc \in {"idle", "responded", "fatal"}
    /\ reqLog' = << >>
    /\ LET r == [ pc |-> "received", method |-> m, path |-> p, query |-> q, body |-> b, uri_ok |-> ok ]
       IN  IF is_units_for_slot(p) /\ m = "GET"
           THEN LET ipfs == TrimStartMatches(p, ROUTE_UNITS_FOR_SLOT)
                IN  IF ipfs = << >>
                    THEN /\ req' = [ r EXCEPT !.pc = "responded" ]
                         /\ resp' = not_found
                         /\ calls' = NoCalls
                    ELSE /\ req' = [ r EXCEPT !.pc = "fetch_slot" ]
                         /\ resp' = NoResponse
                         /\ calls' = [ NoCalls EXCEPT
                                !.fetch_slot = << [ ipfs |-> ipfs, result |-> "pending" ] >> ]
           ELSE LET uri == MarketUrl \o PathAndQuery(p, q)
                IN  IF ~ok
                    THEN /\ req' = [ r EXCEPT !.pc = "fatal" ]
                         /\ resp' = ErrResponse("Http")
                         /\ calls' = NoCalls
                    ELSE /\ req' = [ r EXCEPT !.pc = "proxy" ]
                         /\ resp' = NoResponse
                         /\ calls' = [ NoCalls EXCEPT
                                !.proxy = << [ method |-> m, uri |-> uri, body |-> b, result |-> Pending ] >> ]
    /\ UNCHANGED serveVars
    /\ UNCHANGED schedVars
    /\ UNCHANGED cacheVars

\* bound on the ad-units the Market returns for one slot
MaxUnits == 2

\* the Vec<AdUnit> the Market returns when it returns n units
Units(n) == [ i \in 1 .. n |-> [ ipfs |-> << "u", i >> ] ]

\* what market.fetch_slot(&ipfs).await can return
FetchSlotResults == {"some", "none", "err"}

\* what market.fetch_units(&ad_slot).await can return
FetchUnitsResults ==
    { [ kind |-> "err" ] } \cup { [ kind |-> "ok", units |-> Units(n) ] : n \in 0 .. MaxUnits }

\* what client.request(req).await can return
ClientResults == { [ kind |-> "err" ] } \cup UpstreamResponses

\* a lookup whose None is treated like a found slot
FetchSlotReturnDefault(r) ==
    /\ servePc = "serving"
    /\ req.pc = "fetch_slot"
    /\ IF r = "err"
       THEN /\ req' = [ req EXCEPT !.pc = "fatal" ]
            /\ resp' = ErrResponse("Reqwest")
            /\ calls' = [ calls EXCEPT !.fetch_slot[1].result = r ]
            /\ UNCHANGED reqLog
       ELSE /\ req' = [ req EXCEPT !.pc = "fetch_units" ]
            /\ reqLog' = Append(reqLog, Event("info", "Fetched AdSlot"))
            /\ calls' = [ calls EXCEPT
                   !.fetch_slot[1].result = r,
                   !.fetch_units = Append(@, [ slot |-> calls.fetch_slot[1].ipfs, result |-> Pending ]) ]
            /\ UNCHANGED resp
    /\ UNCHANGED serveVars
    /\ UNCHANGED schedVars
    /\ UNCHANGED cacheVars

\* market.fetch_slot(&ipfs).await? returns
FetchSlotReturn(r) ==
    /\ servePc = "serving"
    /\ req.pc = "fetch_slot"
    /\ IF r = "err"
       THEN /\ req' = [ req EXCEPT !.pc = "fatal" ]
            /\ resp' = ErrResponse("Reqwest")
            /\ calls' = [ calls EXCEPT !.fetch_slot[1].result = r ]
            /\ UNCHANGED reqLog
       ELSE IF r = "none"
            THEN /\ req' = [ req EXCEPT !.pc = "responded" ]
                 /\ resp' = not_found
                 /\ reqLog' = Append(reqLog, Event("info", "AdSlot not found in Market"))
                 /\ calls' = [ calls EXCEPT !.fetch_slot[1].result = r ]
            ELSE /\ req' = [ req EXCEPT !.pc = "fetch_units" ]
                 /\ reqLog' = Append(reqLog, Event("info", "Fetched AdSlot"))
                 /\ calls' = [ calls EXCEPT
                        !.fetch_slot[1].result = r,
                        !.fetch_units = Append(@, [ slot |-> calls.fetch_slot[1].ipfs, result |-> Pending ]) ]
                 /\ UNCHANGED resp
    /\ UNCHANGED serveVars
    /\ UNCHANGED schedVars
    /\ UNCHANGED cacheVars

\* req.uri().query().map(|q| !q.contains("noTargeting")).unwrap_or(true)
apply_targeting(query) ==
    IF query.some THEN ~Contains(query.q, NoTargeting) ELSE TRUE

\* a handler whose unit lookup waits until no refresh is running
FetchUnitsReturnBlocked(r) ==
    /\ schedPc # "run"
    /\ servePc = "serving"
    /\ req.pc = "fetch_units"
    /\ IF r.kind = "err"
       THEN /\ req' = [ req EXCEPT !.pc = "fatal" ]
            /\ resp' = ErrResponse("Reqwest")
            /\ UNCHANGED reqLog
       ELSE /\ req' = [ req EXCEPT !.pc = "responded" ]
            /\ resp' = OkResponse(200, << >>)
            /\ reqLog' = Append(reqLog, Event("info", "Fetched AdUnits for AdSlot"))
    /\ calls' = [ calls EXCEPT !.fetch_units[1].result = r ]
    /\ UNCHANGED serveVars
    /\ UNCHANGED schedVars
    /\ UNCHANGED cacheVars

\* a handler that answers 404 when targeting is applied and leaves no unit
FetchUnitsReturnFiltered(r) ==
    /\ servePc = "serving"
    /\ req.pc = "fetch_units"
    /\ IF r.kind = "err"
       THEN /\ req' = [ req EXCEPT !.pc = "fatal" ]
            /\ resp' = ErrResponse("Reqwest")
            /\ UNCHANGED reqLog
       ELSE /\ req' = [ req EXCEPT !.pc = "responded" ]
            /\ resp' = IF apply_targeting(req.query) /\ Len(r.units) = 0
                       THEN not_found
                       ELSE OkResponse(200, << >>)
            /\ reqLog' = Append(reqLog, Event("info", "Fetched AdUnits for AdSlot"))
    /\ calls' = [ calls EXCEPT !.fetch_units[1].result = r ]
    /\ UNCHANGED serveVars
    /\ UNCHANGED schedVars
    /\ UNCHANGED cacheVars

\* market.fetch_units(&ad_slot).await? returns; _apply_targeting is computed
\* and not used
FetchUnitsReturn(r) ==
    /\ servePc = "serving"
    /\ req.pc = "fetch_units"
    /\ IF r.kind = "err"
       THEN /\ req' = [ req EXCEPT !.pc = "fatal" ]
            /\ resp' = ErrResponse("Reqwest")
            /\ UNCHANGED reqLog
       ELSE /\ req' = [ req EXCEPT !.pc = "responded" ]
            /\ resp' = LET _apply_targeting == apply_targeting(req.query)
                       IN  OkResponse(200, << >>)
            /\ reqLog' = Append(reqLog, Event("info", "Fetched AdUnits for AdSlot"))
    /\ calls' = [ calls EXCEPT !.fetch_units[1].result = r ]
    /\ UNCHANGED serveVars
    /\ UNCHANGED schedVars
    /\ UNCHANGED cacheVars

\* a handler that applies ? to client.request(req).await
ClientRequestReturnPropagated(r) ==
    /\ servePc = "serving"
    /\ req.pc = "proxy"
    /\ IF r.kind = "err"
       THEN /\ req' = [ req EXCEPT !.pc = "fatal" ]
            /\ resp' = ErrResponse("Hyper")
            /\ UNCHANGED reqLog
       ELSE /\ req' = [ req EXCEPT !.pc = "responded" ]
            /\ resp' = r
            /\ reqLog' = Append(reqLog, Event("info", "Proxied request to market"))
    /\ calls' = [ calls EXCEPT !.proxy[1].result = r ]
    /\ UNCHANGED serveVars
    /\ UNCHANGED schedVars
    /\ UNCHANGED cacheVars

\* client.request(req).await returns
ClientRequestReturn(r) ==
    /\ servePc = "serving"
    /\ req.pc = "proxy"
    /\ req' = [ req EXCEPT !.pc = "responded" ]
    /\ IF r.kind = "err"
       THEN /\ resp' = service_unavaiable
            /\ reqLog' = Append(reqLog, Event("error", "Proxying request to market failed"))
       ELSE /\ resp' = r
            /\ reqLog' = Append(reqLog, Event("info", "Proxied request to market"))
    /\ calls' = [ calls EXCEPT !.proxy[1].result = r ]
    /\ UNCHANGED serveVars
    /\ UNCHANGED schedVars
    /\ UNCHANGED cacheVars

(* ---------------------------- specifications --------------------------- *)
Next ==
    \/ MarketApiNewOk
    \/ MarketApiNewErr
    \/ CacheInitializeErr
    \/ \E snap \in {SteadyUpstream} : CacheInitializeOk(snap)
    \/ ServerBind
    \/ ServerBindPanic
    \/ ServerError
    \/ SchedStart
    \/ SchedDispatch
    \/ \E up \in {SteadyUpstream} : CacheStage(up)
    \/ \E res \in FetchResults : SchedReturn(res)
    \/ SchedTimeout
    \/ Tick
    \/ \E m \in Methods, p \in Paths, q \in Queries, b \in Bodies, ok \in BOOLEAN :
            HandleRequest(m, p, q, b, ok)
    \/ \E r \in FetchSlotResults : FetchSlotReturn(r)
    \/ \E r \in FetchUnitsResults : FetchUnitsReturn(r)
    \/ \E r \in ClientResults : ClientRequestReturn(r)

Spec == Init /\ [][Next]_vars

\* the scheduler under every configuration, with the slot request and an
\* upstream that does not change
SchedConfigs == Configs

InitSched ==
    /\ config \in SchedConfigs
    /\ InitRest

NextSched ==
    \/ MarketApiNewOk
    \/ MarketApiNewErr
    \/ CacheInitializeErr
    \/ \E snap \in {SteadyUpstream} : CacheInitializeOk(snap)
    \/ ServerBind
    \/ ServerBindPanic
    \/ ServerError
    \/ SchedStart
    \/ SchedDispatch
    \/ \E up \in {SteadyUpstream} : CacheStage(up)
    \/ \E res \in FetchResults : SchedReturn(res)
    \/ SchedTimeout
    \/ Tick
    \/ HandleRequest("GET", ROUTE_UNITS_FOR_SLOT \o Abc123, None, << >>, TRUE)
    \/ \E r \in {"some"} : FetchSlotReturn(r)
    \/ \E r \in { [ kind |-> "ok", units |-> Units(1) ] } : FetchUnitsReturn(r)

SpecSched == InitSched /\ [][NextSched]_vars

\* the cache under every upstream, with one configuration and the slot request
NextCache ==
    \/ MarketApiNewOk
    \/ MarketApiNewErr
    \/ CacheInitializeErr
    \/ \E snap \in Snapshots : CacheInitializeOk(snap)
    \/ ServerBind
    \/ ServerBindPanic
    \/ ServerError
    \/ SchedStart
    \/ SchedDispatch
    \/ \E up \in Snapshots : CacheStage(up)
    \/ \E res \in FetchResults : SchedReturn(res)
    \/ SchedTimeout
    \/ Tick
    \/ HandleRequest("GET", ROUTE_UNITS_FOR_SLOT \o Abc123, None, << >>, TRUE)
    \/ \E r \in {"some"} : FetchSlotReturn(r)
    \/ \E r \in FetchUnitsResults : FetchUnitsReturn(r)

SpecCache == Init /\ [][NextCache]_vars

\* the runtime polls a task that has been woken, and its timers fire: the loop's
\* own steps and the passage of time are not postponed forever; that a cache
\* operation ever returns is not assumed
SpecLive ==
    /\ InitSched
    /\ [][NextSched]_vars
    /\ WF_vars(SchedStart)
    /\ WF_vars(SchedDispatch)
    /\ WF_vars(SchedTimeout)
    /\ WF_vars(Tick)

(* ---------------------------- properties ------------------------------- *)
\* refresh futures that exist
InProgress == running["New"] + running["Update"]

\* the step in which the match on timeout(..).await sees a result
AttemptEnds == schedPc = "run" /\ outcome = "none" /\ outcome' # "none"

\* the step in which the loop takes an item off the merged stream
Dispatches == schedPc = "await" /\ schedPc' = "run"

\* C1: at most one refresh operation (fetch_new_campaigns or
\* fetch_campaign_updates) is in progress in every reachable state, whatever
\* ticks are pending; one is in progress exactly while the loop is at its
\* timeout(..).await
SequentialRefresh ==
    /\ InProgress <= 1
    /\ InProgress = 1 <=> schedPc = "run"

\* a refresh is running and ticks of both timers fired meanwhile
SequentialRefreshWitness ==
    /\ schedPc = "run"
    /\ elapsed > 0
    /\ InProgress = 1
    /\ \A k \in TimeFor : IntervalReady(due[k])

\* C2: a refresh that never returns is abandoned when its timeout elapses and
\* no later; the loop then awaits and dispatches the next timer event, unless
\* the process has exited for a reason of its own (a server error)
TimeoutIsolation ==
    /\ [](schedPc = "run" => elapsed <= TimeoutDuration(cur))
    /\ [][(schedPc = "run" /\ outcome' = "elapsed")
            => (schedPc' = "await" /\ servePc' = servePc)]_vars
    /\ (schedPc = "run") ~> (schedPc = "await" \/ Exited)
    /\ (schedPc = "await") ~> (schedPc = "run" \/ Exited)

\* an attempt that used up its whole (non-zero) timeout was abandoned; the
\* server is still serving and the loop is at the merged stream
TimeoutIsolationWitness ==
    /\ outcome = "elapsed"
    /\ TimeoutDuration(cur) > 0
    /\ schedPc = "await"
    /\ servePc = "serving"

\* C3: when the timeout elapses the attempt is abandoned (its future no longer
\* exists), exactly one record is logged for it and it is an error, the loop
\* returns to the merged stream without consuming a tick, and an operation is
\* only ever started by taking a ready tick of its own timer off the stream
TimeoutAbandons ==
    [][ /\ (schedPc = "run" /\ outcome' = "elapsed")
            => /\ schedPc' = "await"
               /\ InProgress' = 0
               /\ Len(schedLog') = 1
               /\ schedLog'[1].level = "error"
               /\ due' = due
        /\ (\E k \in TimeFor : running'[k] > running[k])
            => /\ schedPc = "await"
               /\ IntervalReady(due[cur'])
               /\ due'[cur'] = due[cur'] + Period(cur')
               /\ running'[cur'] = running[cur'] + 1 ]_vars

\* an attempt timed out and a later tick of its own timer is already pending
TimeoutAbandonsWitness ==
    /\ outcome = "elapsed"
    /\ schedPc = "await"
    /\ schedLog = AttemptLog(cur, "elapsed")
    /\ IntervalReady(due[cur])

\* C4: once started, the spawned task is always either at the merged stream or
\* at a timeout(..).await until the process exits; whatever an attempt ends
\* with, the loop goes back to the merged stream and serve(), the listener and
\* the request being handled are left as they were
LoopNeverEnds ==
    /\ []((~Exited /\ schedPc \notin {"none", "spawned"}) => schedPc \in {"await", "run"})
    /\ [][AttemptEnds
            => /\ schedPc' = "await"
               /\ servePc' = servePc
               /\ bound' = bound
               /\ UNCHANGED reqVars]_vars

\* an attempt ended with an error from the cache operation while serving
LoopNeverEndsWitness ==
    /\ outcome = "err"
    /\ schedPc = "await"
    /\ servePc = "serving"

\* C5: if Cache::initialize failed, serve has returned an error, the task was
\* never spawned, no listener is bound and no request was handled
StartupFailure ==
    initResult = "err"
        => /\ servePc = "returned_err"
           /\ schedPc = "none"
           /\ InProgress = 0
           /\ ~bound
           /\ req = NoRequest
           /\ resp = NoResponse

\* the initial load failed
StartupFailureWitness ==
    /\ initResult = "err"
    /\ servePc = "returned_err"

\* C6 as stated: the tick taken off the merged stream fired no later than any
\* other pending tick
ChronologicalOrder ==
    [][Dispatches
        => \A j \in TimeFor : IntervalReady(due[j]) => due[cur'] <= due[j]]_vars

\* C6 amended: a dispatched tick is a tick that has fired, the oldest pending
\* one of its timer, and the other timer's ticks stay pending; when both timers
\* have ticks pending the stream takes the tick of the timer that was not
\* served last (New at the start), whichever of the two fired earlier
AlternatingOrder ==
    [][Dispatches
        => /\ IntervalReady(due[cur'])
           /\ due'[cur'] = due[cur'] + Period(cur')
           /\ due'[Other(cur')] = due[Other(cur')]
           /\ IntervalReady(due[Other(cur')])
                => /\ cur' # cur
                   /\ cur = "none" => cur' = "New"]_vars

\* a tick was just dispatched although a tick of the other timer that fired
\* strictly earlier is still pending (neither deadline is tracked at its limit)
AlternatingOrderWitness ==
    /\ schedPc = "run"
    /\ elapsed = 0
    /\ IntervalReady(due[Other(cur)])
    /\ due[Other(cur)] < due[cur] - Period(cur)
    /\ due[Other(cur)] > 0 - MaxLag

\* C7 as stated: the records logged for an attempt tell its outcome: one info
\* record for a success, one error record for a failure or a timeout
OutcomeReported ==
    /\ outcome = "ok" => (Len(schedLog) = 1 /\ schedLog[1].level = "info")
    /\ outcome \in {"err", "elapsed"} => (Len(schedLog) = 1 /\ schedLog[1].level = "error")

\* the request was routed to the slot lookup
TookSlotBranch == is_units_for_slot(req.path) /\ req.method = "GET"

\* C8 as stated: handle returns Err only for a request on the proxy route whose
\* rewritten URI does not parse; any other failure ends in a 404 or 503 response
FatalOnlyOnUri ==
    /\ req.pc = "fatal" <=> resp.kind = "err"
    /\ resp.kind = "err" => (~TookSlotBranch /\ ~req.uri_ok)

\* C9: GET on exactly the route prefix is answered 404 with an empty body at
\* once: no fetch_slot, no fetch_units, no request to upstream
EmptyIdentifier ==
    (req.method = "GET" /\ req.path = ROUTE_UNITS_FOR_SLOT)
        => /\ req.pc = "responded"
           /\ resp = OkResponse(404, << >>)
           /\ calls = NoCalls

\* GET /units-for-slot/ was answered
EmptyIdentifierWitness ==
    /\ req.method = "GET"
    /\ req.path = ROUTE_UNITS_FOR_SLOT
    /\ resp.kind = "ok"
    /\ resp.status = 404

\* C10: when fetch_slot returned None for a non-empty identifier, handle has
\* returned Ok with a 404, nothing was logged as an error, and neither
\* fetch_units nor upstream was called
UnknownSlot ==
    (calls.fetch_slot # << >> /\ calls.fetch_slot[1].result = "none")
        => /\ calls.fetch_slot[1].ipfs # << >>
           /\ Len(calls.fetch_slot) = 1
           /\ req.pc = "responded"
           /\ resp = OkResponse(404, << >>)
           /\ \A i \in 1 .. Len(reqLog) : reqLog[i].level = "info"
           /\ calls.fetch_units = << >>
           /\ calls.proxy = << >>

\* the Market did not know /units-for-slot/abc123
UnknownSlotWitness ==
    /\ req.method = "GET"
    /\ req.path = ROUTE_UNITS_FOR_SLOT \o Abc123
    /\ calls.fetch_slot = << [ ipfs |-> Abc123, result |-> "none" ] >>
    /\ req.pc = "responded"

\* C11: fetch_units is called once, with the slot fetch_slot returned, and only
\* after fetch_slot returned a slot; when it succeeds the answer is 200,
\* whatever the number of units and whatever the query
UnitsFound ==
    /\ calls.fetch_units # << >>
        => /\ Len(calls.fetch_units) = 1
           /\ Len(calls.fetch_slot) = 1
           /\ calls.fetch_slot[1].result = "some"
           /\ calls.fetch_slot[1].ipfs # << >>
           /\ calls.fetch_units[1].slot = calls.fetch_slot[1].ipfs
    /\ (calls.fetch_units # << >> /\ calls.fetch_units[1].result.kind = "ok")
        => /\ req.pc = "responded"
           /\ resp.kind = "ok"
           /\ resp.status = 200
           /\ calls.proxy = << >>

\* a slot with no unit, asked for with targeting applied, was answered 200
UnitsFoundWitness ==
    /\ req.method = "GET"
    /\ req.path = ROUTE_UNITS_FOR_SLOT \o Abc123
    /\ apply_targeting(req.query)
    /\ calls.fetch_units # << >>
    /\ calls.fetch_units[1].result = [ kind |-> "ok", units |-> Units(0) ]
    /\ resp = OkResponse(200, << >>)

\* the request went to the match arm of the proxy
OffSlotRoute == req.pc # "idle" /\ ~TookSlotBranch

\* the request the proxy arm hands to the client: the Market's base URL, then
\* the path, then "?" and the query when there is one; method and body kept
Forwarded ==
    [ method |-> req.method,
      uri |-> MarketUrl \o req.path \o (IF req.query.some THEN << "?" >> \o req.query.q ELSE << >>),
      body |-> req.body ]

\* the proxy arm made exactly the Forwarded request and relays what came back
ForwardedOnce ==
    /\ Len(calls.proxy) = 1
    /\ [ f \in {"method", "uri", "body"} |-> calls.proxy[1][f] ] = Forwarded
    /\ calls.fetch_slot = << >>
    /\ calls.proxy[1].result.kind = "ok"
        => (req.pc = "responded" /\ resp = calls.proxy[1].result)

\* C12 as stated: every request off the slot route is forwarded exactly once
\* and upstream's answer is relayed as it is
ProxiedAlways == OffSlotRoute => ForwardedOnce

\* C12 amended: every request off the slot route whose rewritten URI parses is
\* forwarded exactly once and upstream's answer is relayed as it is; one whose
\* rewritten URI does not parse is not forwarded at all
ProxiedWhenUriParses ==
    /\ (OffSlotRoute /\ req.uri_ok) => ForwardedOnce
    /\ (OffSlotRoute /\ ~req.uri_ok) => (calls = NoCalls /\ req.pc = "fatal")

\* a POST with a query and a body was forwarded and upstream's 500 relayed
ProxiedWhenUriParsesWitness ==
    /\ req.method = "POST"
    /\ req.path = << "/", "a", "n", "y" >>
    /\ req.query.some
    /\ req.body # << >>
    /\ req.pc = "responded"
    /\ resp = OkResponse(500, << "b" >>)
    /\ calls.proxy[1].result = resp

\* C13: when client.request fails, handle returns Ok with 503 and an empty
\* body, and logs one error record
UpstreamUnreachable ==
    (calls.proxy # << >> /\ calls.proxy[1].result.kind = "err")
        => /\ req.pc = "responded"
           /\ resp = OkResponse(503, << >>)
           /\ Len(reqLog) = 1
           /\ reqLog[1].level = "error"

\* POST /any with upstream unreachable
UpstreamUnreachableWitness ==
    /\ req.method = "POST"
    /\ req.path = << "/", "a", "n", "y" >>
    /\ calls.proxy # << >>
    /\ calls.proxy[1].result.kind = "err"
    /\ resp.kind = "ok"
    /\ resp.status = 503

\* C16: while the server is serving, every step of request handling that is
\* due can be taken, whatever the spawned task is doing: a request can be
\* received, and each call handle() awaits can return
NeverBlocks ==
    servePc = "serving"
        => /\ req.pc \in {"idle", "responded", "fatal"}
                => ENABLED (\E m \in Methods, p \in Paths, q \in Queries, b \in Bodies,
                               ok \in BOOLEAN : HandleRequest(m, p, q, b, ok))
           /\ req.pc = "fetch_slot" => ENABLED (\E r \in FetchSlotResults : FetchSlotReturn(r))
           /\ req.pc = "fetch_units" => ENABLED (\E r \in FetchUnitsResults : FetchUnitsReturn(r))
           /\ req.pc = "proxy" => ENABLED (\E r \in ClientResults : ClientRequestReturn(r))

\* a refresh has used up its whole timeout without returning, and a slot
\* request has its units and its answer
NeverBlocksWitness ==
    /\ schedPc = "run"
    /\ elapsed > 0
    /\ elapsed = TimeoutDuration(cur)
    /\ req.pc = "responded"
    /\ calls.fetch_units # << >>
    /\ resp = OkResponse(200, << >>)

\* C17: the task exists, a refresh runs, the listener is bound or a request
\* has been handled only after Cache::initialize returned Ok; none of that
\* while the initial load is pending; the task is spawned once, from
\* spawn_fetch_campaigns, and never again
StartupOrder ==
    /\ []((schedPc # "none" \/ InProgress > 0 \/ bound \/ req # NoRequest)
            => initResult = "ok")
    /\ [](servePc \in {"start", "initialize"}
            => (schedPc = "none" /\ InProgress = 0 /\ ~bound /\ req = NoRequest))
    /\ [][(schedPc' = "spawned" /\ schedPc # "spawned")
            => (schedPc = "none" /\ servePc = "initialize" /\ initResult' = "ok")]_vars
    /\ [][schedPc # "none" => schedPc' # "none"]_vars

\* after a successful initial load a refresh runs and a request was answered
StartupOrderWitness ==
    /\ initResult = "ok"
    /\ schedPc = "run"
    /\ req.pc = "responded"

\* the request went through the slot-lookup arm: fetch_slot was called, or
\* the empty identifier was answered at once
InSlotArm == calls.fetch_slot # << >> \/ (req.pc = "responded" /\ calls = NoCalls)

\* the request went through the proxy arm: it was forwarded, or its
\* rewritten URI did not parse
InProxyArm == calls.proxy # << >> \/ (req.pc = "fatal" /\ calls = NoCalls)

\* C18: a request goes through the slot-lookup arm exactly when its method is
\* GET and its path starts with "/units-for-slot/"; every other request goes
\* through the proxy arm; none goes through both
Routing ==
    req.pc # "idle"
        => /\ InSlotArm <=> (req.method = "GET" /\ StartsWith(req.path, ROUTE_UNITS_FOR_SLOT))
           /\ InProxyArm <=> ~InSlotArm

\* GET /units-for-slot (no trailing slash) and POST /units-for-slot/abc123
\* were proxied
RoutingWitness ==
    /\ calls.proxy # << >>
    /\ \/ /\ req.method = "GET"
          /\ req.path = SubSeq(ROUTE_UNITS_FOR_SLOT, 1, Len(ROUTE_UNITS_FOR_SLOT) - 1)
       \/ /\ req.method = "POST"
          /\ req.path = ROUTE_UNITS_FOR_SLOT \o Abc123

\* C19 as stated: the identifier handed to fetch_slot is the path without its
\* one leading "/units-for-slot/"; only when nothing follows that prefix is the
\* request answered 404 without a lookup
SinglePrefix ==
    (req.method = "GET" /\ StartsWith(req.path, ROUTE_UNITS_FOR_SLOT))
        => LET id == SubSeq(req.path, Len(ROUTE_UNITS_FOR_SLOT) + 1, Len(req.path))
           IN  IF id = << >>
               THEN /\ req.pc = "responded"
                    /\ resp = not_found
                    /\ calls = NoCalls
               ELSE /\ Len(calls.fetch_slot) = 1
                    /\ calls.fetch_slot[1].ipfs = id

\* C20: until the process exits, the running task dispatches
\* fetch_new_campaigns again and again, and fetch_campaign_updates again and
\* again, also when no cache operation ever returns
NoStarvation ==
    \A k \in TimeFor :
        []<>(schedPc \notin {"await", "run"} \/ (schedPc = "run" /\ cur = k /\ elapsed = 0))

\* an Update is dispatched while ticks of both timers are pending, New's
\* overdue, under timeouts longer than New's period
NoStarvationWitness ==
    /\ schedPc = "run"
    /\ cur = "Update"
    /\ elapsed = 0
    /\ \A k \in TimeFor : IntervalReady(due[k]) /\ TimeoutDuration(k) > Period("New")
    /\ due["New"] < 0
    /\ outcome = "none"

\* C14 as stated: the units a slot request got come from the campaigns in the
\* cache: each is the unit a cached campaign funds
UnitsFromCache ==
    (calls.fetch_units # << >> /\ calls.fetch_units[1].result.kind = "ok")
        => \A i \in 1 .. Len(calls.fetch_units[1].result.units) :
                \E c \in DOMAIN cache :
                    FundedUnit(c) = calls.fetch_units[1].result.units[i].ipfs

====
